---- MODULE Spec2Model ----
(***************************************************************************)
(* Model of main.py: the lspci block parser (content2blocks, block2dict),  *)
(* the BusID conversion, the Xorg configuration templater                  *)
(* (generate_xorg_conf) and the __main__ pipeline that chains them.        *)
(*                                                                         *)
(* A Python str is a sequence of one-character strings; a dict is a        *)
(* function; a list is a sequence.                                         *)
(***************************************************************************)
EXTENDS Integers, Sequences, FiniteSets, TLC

VARIABLES
    pc,              \* position of the running code
    devices,         \* generate_xorg_conf: the device table (rows with BusID)
    n_screens,       \* generate_xorg_conf: screens per device
    idx_device,      \* generate_xorg_conf: outer loop index
    scr,             \* generate_xorg_conf: inner loop index (_screen_id)
    bus_id,          \* generate_xorg_conf: BusID of the current row
    device_id,       \* generate_xorg_conf: the running id counter
    xorg_conf,       \* generate_xorg_conf: list of emitted fragments
    screen_records,  \* generate_xorg_conf: list of screen records
    output,          \* generate_xorg_conf: the returned configuration
    content,         \* parser: the raw text (output of lspci)
    blocks,          \* parser: the list content2blocks returned
    dcts,            \* parser: the dicts built so far, one per block
    warnings,        \* parser: the rows handed to warnings.warn, in order
    slot,            \* BusID conversion: the Slot string
    busid,           \* BusID conversion: the result of the lambda
    doi_table,       \* __main__: the selected group of raw_table
    failed_at,       \* __main__: the step whose exception ended the run
    dir_created,     \* __main__: custom-xorg-conf/ was created
    file_written     \* __main__: tmpfile-<display>.conf was written

xvars == <<devices, n_screens, idx_device, scr, bus_id, device_id,
           xorg_conf, screen_records, output>>
pvars == <<content, blocks, dcts, warnings>>
bvars == <<slot, busid>>
mvars == <<doi_table, failed_at, dir_created, file_written>>

vars == <<pc, xvars, pvars, bvars, mvars>>

None == "None"

\* The variables a specification does not use stay None.
NoTemplater ==
    /\ devices = None /\ n_screens = None /\ idx_device = None
    /\ scr = None /\ bus_id = None /\ device_id = None
    /\ xorg_conf = None /\ screen_records = None /\ output = None
NoParser == content = None /\ blocks = None /\ dcts = None /\ warnings = None
NoBusID == slot = None /\ busid = None
NoMain ==
    /\ doi_table = None /\ failed_at = None
    /\ dir_created = None /\ file_written = None

----------------------------------------------------------------------------
(* Bounds of the templater model *)
MaxDevices == 3
MaxScreens == 3

BusIDs == {"PCI:1:0:0", "PCI:2:0:0", "PCI:3:0:0"}

DeviceTables ==
    UNION {[1..n -> [BusID : BusIDs]] : n \in 0..MaxDevices}

----------------------------------------------------------------------------
(* generate_template / generate_xorg_conf *)

\* A Device section named after the screen index instead of the counter.
DeviceSectionNamedByScreen(did, bid, sid) ==
    [section |-> "Device", Identifier |-> <<"Device", sid>>,
     BusID |-> bid, Screen |-> sid]

\* device_section.format(device_id=, bus_id=, _screen_id=)
DeviceSection(did, bid, sid) ==
    [section |-> "Device", Identifier |-> <<"Device", did>>,
     BusID |-> bid, Screen |-> sid]

\* A Screen section formatted after the counter was already advanced.
ScreenSectionOffByOne(did, sid) ==
    [section |-> "Screen", Identifier |-> <<"Screen", sid>>,
     Device |-> <<"Device", did + 1>>]

\* screen_section.format(device_id=, screen_id=)
ScreenSection(did, sid) ==
    [section |-> "Screen", Identifier |-> <<"Screen", sid>>,
     Device |-> <<"Device", did>>]

\* 'Screen {screen_id} "Screen{screen_id}" 0 0'.format(screen_id=)
ScreenRecord(sid) ==
    [num |-> sid, name |-> <<"Screen", sid>>]

\* server_layout_section.format(screen_records="\n    ".join(screen_records))
ServerLayoutSection(recs) ==
    [section |-> "ServerLayout", records |-> recs]

\* A body that emits the Device section once per device (first screen only)
\* and a body that passes the counter as the Screen index.
LoopBodyDeviceOnce(st, bid, sid) ==
    [xorg_conf |-> st.xorg_conf
                   \o (IF sid = 0
                       THEN <<DeviceSection(st.device_id, bid, sid)>>
                       ELSE <<>>)
                   \o <<ScreenSection(st.device_id, st.device_id)>>,
     screen_records |-> Append(st.screen_records, ScreenRecord(st.device_id)),
     device_id |-> st.device_id + 1]

LoopBodyCounterAsScreen(st, bid, sid) ==
    [xorg_conf |-> st.xorg_conf
                   \o <<DeviceSection(st.device_id, bid, st.device_id),
                        ScreenSection(st.device_id, st.device_id)>>,
     screen_records |-> Append(st.screen_records, ScreenRecord(st.device_id)),
     device_id |-> st.device_id + 1]

\* The body of the inner loop, on the function's three accumulators.
LoopBody(st, bid, sid) ==
    [xorg_conf |-> st.xorg_conf
                   \o <<DeviceSection(st.device_id, bid, sid),
                        ScreenSection(st.device_id, st.device_id)>>,
     screen_records |-> Append(st.screen_records, ScreenRecord(st.device_id)),
     device_id |-> st.device_id + 1]

XorgInit ==
    /\ devices \in DeviceTables
    /\ n_screens \in 0..MaxScreens
    /\ pc = "for_device"
    /\ idx_device = 0
    /\ scr = 0
    /\ bus_id = None
    /\ device_id = 0
    /\ xorg_conf = <<>>
    /\ screen_records = <<>>
    /\ output = None
    /\ NoParser /\ NoBusID /\ NoMain

\* for idx_device in range(len(devices)): se = devices.iloc[idx_device] ...
NextDevice ==
    /\ pc = "for_device"
    /\ idx_device < Len(devices)
    /\ bus_id' = devices[idx_device + 1].BusID
    /\ scr' = 0
    /\ pc' = "for_screen"
    /\ UNCHANGED <<devices, n_screens, idx_device, device_id, xorg_conf,
                   screen_records, output, pvars, bvars, mvars>>

\* for _screen_id in range(n_screens): one pass of the body
ScreenIteration ==
    /\ pc = "for_screen"
    /\ scr < n_screens
    /\ LET st == LoopBody([xorg_conf |-> xorg_conf,
                           screen_records |-> screen_records,
                           device_id |-> device_id], bus_id, scr)
       IN /\ xorg_conf' = st.xorg_conf
          /\ screen_records' = st.screen_records
          /\ device_id' = st.device_id
    /\ scr' = scr + 1
    /\ UNCHANGED <<pc, devices, n_screens, idx_device, bus_id, output,
                   pvars, bvars, mvars>>

\* the inner range is exhausted: back to the outer loop
EndScreens ==
    /\ pc = "for_screen"
    /\ scr >= n_screens
    /\ idx_device' = idx_device + 1
    /\ pc' = "for_device"
    /\ UNCHANGED <<devices, n_screens, scr, bus_id, device_id, xorg_conf,
                   screen_records, output, pvars, bvars, mvars>>

\* The ServerLayout appended without waiting for the outer loop to end.
AppendServerLayoutEarly ==
    /\ pc = "for_device"
    /\ xorg_conf' = Append(xorg_conf, ServerLayoutSection(screen_records))
    /\ pc' = "join"
    /\ UNCHANGED <<devices, n_screens, idx_device, scr, bus_id, device_id,
                   screen_records, output, pvars, bvars, mvars>>

\* xorg_conf.append(server_layout_section.format(...))
AppendServerLayout ==
    /\ pc = "for_device"
    /\ idx_device >= Len(devices)
    /\ xorg_conf' = Append(xorg_conf, ServerLayoutSection(screen_records))
    /\ pc' = "join"
    /\ UNCHANGED <<devices, n_screens, idx_device, scr, bus_id, device_id,
                   screen_records, output, pvars, bvars, mvars>>

\* output = '\n'.join(xorg_conf); return output
ReturnOutput ==
    /\ pc = "join"
    /\ output' = xorg_conf
    /\ pc' = "done"
    /\ UNCHANGED <<devices, n_screens, idx_device, scr, bus_id, device_id,
                   xorg_conf, screen_records, pvars, bvars, mvars>>

XorgNext ==
    \/ NextDevice
    \/ ScreenIteration
    \/ EndScreens
    \/ AppendServerLayout
    \/ ReturnOutput

SpecXorg == XorgInit /\ [][XorgNext]_vars

----------------------------------------------------------------------------
(* Properties of generate_xorg_conf *)

SectionsOf(conf, kind) == SelectSeq(conf, LAMBDA f : f.section = kind)

Rows == 1..Len(devices)

Finished == pc = "done"

\* Number of elements of sequence s satisfying Test.
CountIn(s, Test(_)) == Cardinality({i \in 1..Len(s) : Test(s[i])})

\* C1 as stated: one Device section per physical device, D in total.
C1_OneDeviceSectionPerDevice ==
    (Finished /\ n_screens >= 1)
        => Len(SectionsOf(output, "Device")) = Len(devices)

\* C1 amended: one Device section per (device, screen index) pair, that is
\* D * n_screens Device sections; every device_id names exactly one Device
\* section (hence one BusID), and every table row's BusID is carried by
\* n_screens sections for each row holding that BusID.
C1_DeviceSectionPerPair ==
    (Finished /\ n_screens >= 1)
        => LET ds == SectionsOf(output, "Device")
           IN /\ Len(ds) = Len(devices) * n_screens
              /\ \A i, j \in 1..Len(ds) :
                    ds[i].Identifier = ds[j].Identifier => i = j
              /\ \A r \in Rows :
                    CountIn(ds, LAMBDA f : f.BusID = devices[r].BusID)
                      = n_screens
                        * Cardinality({q \in Rows :
                                         devices[q].BusID = devices[r].BusID})

C1_Witness ==
    /\ Finished
    /\ Len(devices) = 2
    /\ n_screens = 3
    /\ Len(SectionsOf(output, "Device")) = 6

\* C2: at every point of the loop the ids emitted so far are exactly
\* 0..device_id-1 in emission order, one Device section each, and the ids of
\* row i (0-based) are those from i * n_screens on, so an earlier row's ids
\* are smaller than a later row's.
C2_DenseZeroBasedIds ==
    LET ds == SectionsOf(xorg_conf, "Device")
    IN /\ Len(ds) = device_id
       /\ \A j \in 1..Len(ds) : ds[j].Identifier = <<"Device", j - 1>>
       /\ pc = "for_device" => device_id = idx_device * n_screens
       /\ pc = "for_screen" => device_id = idx_device * n_screens + scr
       /\ pc \in {"join", "done"} => device_id = Len(devices) * n_screens

C2_Witness ==
    /\ Finished
    /\ Len(devices) = 2
    /\ n_screens = 3
    /\ [j \in 1..6 |-> SectionsOf(output, "Device")[j].Identifier[2]]
         = <<0, 1, 2, 3, 4, 5>>

\* C3: one Screen section per (device, screen index) pair; Screen<k>
\* references Device<k>, and the fragment emitted immediately before it is
\* the Device section Device<k>.
C3_ScreenReferencesItsDevice ==
    /\ \A p \in 1..Len(xorg_conf) :
          xorg_conf[p].section = "Screen"
            => /\ xorg_conf[p].Identifier[2] = xorg_conf[p].Device[2]
               /\ xorg_conf[p].Identifier[1] = "Screen"
               /\ p > 1
               /\ xorg_conf[p - 1].section = "Device"
               /\ xorg_conf[p - 1].Identifier = xorg_conf[p].Device
    /\ Finished
         => Len(SectionsOf(output, "Screen")) = Len(devices) * n_screens

C3_Witness ==
    /\ Finished
    /\ Len(devices) = 2
    /\ n_screens = 1
    /\ SectionsOf(output, "Screen")
         = <<ScreenSection(0, 0), ScreenSection(1, 1)>>

\* C4: a ServerLayout section exists only once every device is processed,
\* it is then the single, last fragment, and its records name the emitted
\* Screen sections one for one, in emission order.
C4_ServerLayoutLastAndComplete ==
    LET ls == SectionsOf(xorg_conf, "ServerLayout")
        ss == SectionsOf(xorg_conf, "Screen")
    IN /\ pc \in {"for_device", "for_screen"} => Len(ls) = 0
       /\ pc \in {"join", "done"}
            => /\ Len(ls) = 1
               /\ idx_device = Len(devices)
               /\ xorg_conf[Len(xorg_conf)].section = "ServerLayout"
               /\ Len(ls[1].records) = Len(ss)
               /\ \A j \in 1..Len(ss) :
                     /\ ls[1].records[j].name = ss[j].Identifier
                     /\ ls[1].records[j].num = ss[j].Identifier[2]
       /\ Finished => output = xorg_conf

C4_Witness ==
    /\ Finished
    /\ Len(devices) = 2
    /\ n_screens = 3
    /\ Len(output[Len(output)].records) = 6

\* C10: the Device section with device_id k carries the BusID of table row
\* k div n_screens and Screen index k mod n_screens.
C10_DeviceSectionContents ==
    LET ds == SectionsOf(xorg_conf, "Device")
    IN \A j \in 1..Len(ds) :
          LET k == ds[j].Identifier[2]
          IN /\ k = j - 1
             /\ n_screens >= 1
             /\ (k \div n_screens) + 1 \in Rows
             /\ ds[j].BusID = devices[(k \div n_screens) + 1].BusID
             /\ ds[j].Screen = k % n_screens

C10_Witness ==
    /\ Finished
    /\ Len(devices) = 2
    /\ n_screens = 3
    /\ devices[1].BusID # devices[2].BusID
    /\ SectionsOf(output, "Device")[5]
         = DeviceSection(4, devices[2].BusID, 1)

----------------------------------------------------------------------------
(* Python str operations used by the parser *)

\* str.find(sep): the 1-based index of the first occurrence, 0 when absent.
Find(s, sep) ==
    LET hits == {i \in 1..(Len(s) - Len(sep) + 1) :
                    SubSeq(s, i, i + Len(sep) - 1) = sep}
    IN IF hits = {} THEN 0
       ELSE CHOOSE i \in hits : \A j \in hits : i <= j

\* sep in s
Contains(s, sep) == Find(s, sep) # 0

\* str.split(sep): left to right, non-overlapping occurrences.
RECURSIVE Split(_, _)
Split(s, sep) ==
    LET i == Find(s, sep)
    IN IF i = 0 THEN <<s>>
       ELSE <<SubSeq(s, 1, i - 1)>>
            \o Split(SubSeq(s, i + Len(sep), Len(s)), sep)

\* A split at the last occurrence (rsplit), not the first.
SplitOnceAtLast(s, sep) ==
    LET hits == {i \in 1..(Len(s) - Len(sep) + 1) :
                    SubSeq(s, i, i + Len(sep) - 1) = sep}
        i == CHOOSE h \in hits : \A j \in hits : j <= h
    IN <<SubSeq(s, 1, i - 1), SubSeq(s, i + Len(sep), Len(s))>>

\* str.split(sep, 1) of a string that contains sep: [head, tail].
SplitOnce(s, sep) ==
    LET i == Find(s, sep)
    IN <<SubSeq(s, 1, i - 1), SubSeq(s, i + Len(sep), Len(s))>>

\* Characters str.strip() removes.
IsSpace(c) == c \in {" ", "\t", "\n", "\r", "\f"}

RECURSIVE LStrip(_)
LStrip(s) ==
    IF s # <<>> /\ IsSpace(Head(s)) THEN LStrip(Tail(s)) ELSE s

RECURSIVE RStrip(_)
RStrip(s) ==
    IF s # <<>> /\ IsSpace(s[Len(s)])
    THEN RStrip(SubSeq(s, 1, Len(s) - 1)) ELSE s

\* str.strip()
Strip(s) == RStrip(LStrip(s))

----------------------------------------------------------------------------
(* content2blocks / block2dict *)

block_divider == <<"\n", "\n">>
row_divider == <<"\n">>
name_divider == <<":", "\t">>

\* content2blocks that keeps the empty blocks.
content2blocksKeepEmpty(c) == Split(c, <<"\n", "\n">>)

\* content2blocks(content) with the default arguments
\* (ignore_empty_block_flag=True): the blocks whose strip() is non-empty.
content2blocks(c) ==
    SelectSeq(Split(c, block_divider), LAMBDA e : Strip(e) # <<>>)

\* output[name] = value
DictSet(d, name, value) ==
    [k \in DOMAIN d \cup {name} |-> IF k = name THEN value ELSE d[k]]

EmptyDict == [k \in {} |-> None]

\* The loop of block2dict over the rows left, on the pair
\* (output, rows warned about).
RECURSIVE Block2DictRows(_, _)
Block2DictRows(rows, acc) ==
    IF rows = <<>> THEN acc
    ELSE LET row == Head(rows)
         IN IF ~Contains(row, name_divider)
            THEN Block2DictRows(Tail(rows),
                     [output |-> acc.output,
                      warned |-> Append(acc.warned, row)])
            ELSE LET nv == SplitOnce(row, name_divider)
                 IN Block2DictRows(Tail(rows),
                        [output |-> DictSet(acc.output, nv[1], nv[2]),
                         warned |-> acc.warned])

\* block2dict(block) with the default dividers: the dict it returns and
\* the rows it warned about.
block2dict(block) ==
    Block2DictRows(Split(block, row_divider),
                   [output |-> EmptyDict, warned |-> <<>>])

(* Bounds of the parser model *)
MaxLen == 7

Chars == {"a", ":", "\t", "\n"}

Strings == UNION {[1..n -> Chars] : n \in 0..MaxLen}

ParseInit ==
    /\ content \in Strings
    /\ pc = "content2blocks"
    /\ blocks = <<>>
    /\ dcts = <<>>
    /\ warnings = <<>>
    /\ NoTemplater /\ NoBusID /\ NoMain

\* blocks = content2blocks(output)
Content2Blocks ==
    /\ pc = "content2blocks"
    /\ blocks' = content2blocks(content)
    /\ pc' = "block2dict"
    /\ UNCHANGED <<content, dcts, warnings, xvars, bvars, mvars>>

\* dcts = [block2dict(e) for e in blocks]: the next element
Block2Dict ==
    /\ pc = "block2dict"
    /\ Len(dcts) < Len(blocks)
    /\ LET r == block2dict(blocks[Len(dcts) + 1])
       IN /\ dcts' = Append(dcts, r.output)
          /\ warnings' = warnings \o r.warned
    /\ UNCHANGED <<pc, content, blocks, xvars, bvars, mvars>>

\* raw_table = pd.DataFrame(dcts): the comprehension is exhausted
BuildRawTable ==
    /\ pc = "block2dict"
    /\ Len(dcts) = Len(blocks)
    /\ pc' = "parsed"
    /\ UNCHANGED <<pvars, xvars, bvars, mvars>>

ParseNext ==
    \/ Content2Blocks
    \/ Block2Dict
    \/ BuildRawTable

SpecParse == ParseInit /\ [][ParseNext]_vars

----------------------------------------------------------------------------
(* Properties of the parser *)

\* The k-th smallest element of a set of integers.
Kth(S, k) == CHOOSE x \in S : Cardinality({y \in S : y < x}) = k - 1

\* The pieces of s around the separators that start at the positions in
\* starts, each width characters wide.
PiecesAround(s, starts, width) ==
    [k \in 1..(Cardinality(starts) + 1) |->
        SubSeq(s,
               IF k = 1 THEN 1 ELSE Kth(starts, k - 1) + width,
               IF k = Cardinality(starts) + 1 THEN Len(s)
               ELSE Kth(starts, k) - 1)]

\* Length of the run of newlines that ends just before position i.
NewlinesBefore(s, i) ==
    LET others == {j \in 1..(i - 1) : s[j] # "\n"} \cup {0}
    IN (i - 1) - (CHOOSE m \in others : \A j \in others : j <= m)

\* Where the block dividers of s start: a pair of newlines at an even
\* offset within its run of newlines.
BlockDividers(s) ==
    {i \in 1..(Len(s) - 1) :
        s[i] = "\n" /\ s[i + 1] = "\n" /\ NewlinesBefore(s, i) % 2 = 0}

BlankLineSeparated(s) == PiecesAround(s, BlockDividers(s), 2)

NonBlank(s) == \E i \in 1..Len(s) : ~IsSpace(s[i])

\* C5: content2blocks then block2dict yields one record per block that
\* holds a non-whitespace character, in input order; empty and
\* whitespace-only blocks are discarded.
C5_OneRecordPerNonEmptyBlock ==
    pc = "parsed"
      => LET all == BlankLineSeparated(content)
             kept == {k \in DOMAIN all : NonBlank(all[k])}
         IN /\ Len(dcts) = Cardinality(kept)
            /\ Len(blocks) = Cardinality(kept)
            /\ \A j \in 1..Len(blocks) : blocks[j] = all[Kth(kept, j)]

C5_Witness ==
    /\ pc = "parsed"
    /\ Len(dcts) = 2
    /\ Len(BlankLineSeparated(content)) = 3
    /\ BlankLineSeparated(content)[1] = <<>>

\* The rows of a block, and where the name/value divider starts in a row.
RowsOf(block) ==
    PiecesAround(block, {i \in 1..Len(block) : block[i] = "\n"}, 1)

NameDividers(row) ==
    {i \in 1..(Len(row) - 1) : row[i] = ":" /\ row[i + 1] = "\t"}

NameOf(row) == SubSeq(row, 1, Kth(NameDividers(row), 1) - 1)

ValueOf(row) == SubSeq(row, Kth(NameDividers(row), 1) + 2, Len(row))

RECURSIVE Flatten(_)
Flatten(ss) == IF ss = <<>> THEN <<>> ELSE Head(ss) \o Flatten(Tail(ss))

\* C6: block2dict drops every row without the divider with one warning
\* each and goes on: the record's keys are the names (text before the first
\* divider) of the well-formed rows, each with the value (everything after
\* that divider) of the last row of that name.
C6_MalformedRowsSkipped ==
    /\ \A j \in 1..Len(dcts) :
          LET rows == RowsOf(blocks[j])
              good == {r \in DOMAIN rows : NameDividers(rows[r]) # {}}
          IN /\ DOMAIN dcts[j] = {NameOf(rows[r]) : r \in good}
             /\ \A r \in good :
                   (\A q \in good : NameOf(rows[q]) = NameOf(rows[r])
                                      => q <= r)
                     => dcts[j][NameOf(rows[r])] = ValueOf(rows[r])
    /\ warnings
         = Flatten([j \in 1..Len(dcts) |->
                       SelectSeq(RowsOf(blocks[j]),
                                 LAMBDA row : NameDividers(row) = {})])

C6_Witness ==
    /\ pc = "parsed"
    /\ Len(dcts) = 1
    /\ Len(RowsOf(blocks[1])) = 3
    /\ NameDividers(RowsOf(blocks[1])[1]) = {}
    /\ NameDividers(RowsOf(blocks[1])[2]) # {}
    /\ NameDividers(RowsOf(blocks[1])[3]) = {}
    /\ Len(warnings) = 2
    /\ Cardinality(DOMAIN dcts[1]) = 1

----------------------------------------------------------------------------
(* The BusID conversion:                                                   *)
(*   'PCI:' + ':'.join(map(lambda x: str(int(x, 16)),                      *)
(*                         re.split(r'[:\.]', s)))                         *)

\* What a call gives: a value, or the exception it raised.
Returned(v) == [ok |-> TRUE, value |-> v]
Raised(e) == [ok |-> FALSE, error |-> e]

HexDigits == <<"0", "1", "2", "3", "4", "5", "6", "7", "8", "9",
               "a", "b", "c", "d", "e", "f">>
HexDigitsUpper == <<"0", "1", "2", "3", "4", "5", "6", "7", "8", "9",
                    "A", "B", "C", "D", "E", "F">>

IsHexDigit(c) ==
    \E v \in 1..16 : HexDigits[v] = c \/ HexDigitsUpper[v] = c

HexDigitValue(c) ==
    (CHOOSE v \in 1..16 : HexDigits[v] = c \/ HexDigitsUpper[v] = c) - 1

\* re.split(r'[:\.]', s): s cut at every ':' and every '.'.
RECURSIVE ReSplit(_)
ReSplit(s) ==
    LET seps == {i \in 1..Len(s) : s[i] \in {":", "."}}
    IN IF seps = {} THEN <<s>>
       ELSE LET i == CHOOSE h \in seps : \A j \in seps : h <= j
            IN <<SubSeq(s, 1, i - 1)>> \o ReSplit(SubSeq(s, i + 1, Len(s)))

\* The digits of x accumulated left to right onto acc, in base 16.
RECURSIVE HexAccumulate(_, _)
HexAccumulate(x, acc) ==
    IF x = <<>> THEN acc
    ELSE HexAccumulate(Tail(x), acc * 16 + HexDigitValue(Head(x)))

\* int(x, 16) for x made of hex digits and other letters or punctuation
\* (no sign, prefix, underscore or blank): the number, or ValueError for an
\* empty string or a character that is no hex digit.
IntBase16(x) ==
    IF x = <<>> \/ \E i \in 1..Len(x) : ~IsHexDigit(x[i])
    THEN Raised("ValueError")
    ELSE Returned(HexAccumulate(x, 0))

\* str(n) for n >= 0
RECURSIVE Str(_)
Str(n) ==
    IF n < 10 THEN <<HexDigits[n + 1]>>
    ELSE Str(n \div 10) \o <<HexDigits[(n % 10) + 1]>>

\* sep.join(parts)
RECURSIVE Join(_, _)
Join(parts, sep) ==
    IF parts = <<>> THEN <<>>
    ELSE IF Len(parts) = 1 THEN parts[1]
    ELSE parts[1] \o sep \o Join(Tail(parts), sep)

\* The prefix put in front without converting the components.
BusIDOfUnconverted(s) ==
    Returned(<<"P", "C", "I", ":">> \o Join(ReSplit(s), <<":">>))

\* The lambda mapped over doi_table['Slot']: the BusID, or the ValueError
\* of the first component int() refuses.
BusIDOf(s) ==
    LET parts == ReSplit(s)
        ints == [i \in 1..Len(parts) |-> IntBase16(parts[i])]
    IN IF \E i \in 1..Len(ints) : ~ints[i].ok
       THEN Raised("ValueError")
       ELSE Returned(<<"P", "C", "I", ":">>
                     \o Join([i \in 1..Len(ints) |-> Str(ints[i].value)],
                             <<":">>))

(* Bounds of the BusID model *)
MaxHexLen == 2

SlotDigits == {"0", "1", "a", "f"}
FunctionDigits == {"0", "7"}

HexComponents == UNION {[1..n -> SlotDigits] : n \in 1..MaxHexLen}
Functions == {<<f>> : f \in FunctionDigits}

\* bus:device.function
WellFormedSlots ==
    {b \o <<":">> \o d \o <<".">> \o f :
        b \in HexComponents, d \in HexComponents, f \in Functions}

\* Slots of another shape: a component short, a domain in front, the
\* separators swapped, an empty component, a component that is not hex.
OtherSlots ==
    {b \o <<":">> \o d : b \in HexComponents, d \in HexComponents}
    \cup {<<"0", "0", "0", "0", ":">> \o w : w \in WellFormedSlots}
    \cup {b \o <<".">> \o d \o <<":">> \o f :
            b \in HexComponents, d \in HexComponents, f \in Functions}
    \cup {b \o <<":", ".">> \o f : b \in HexComponents, f \in Functions}
    \cup {b \o <<":", "g", ".">> \o f : b \in HexComponents, f \in Functions}
    \cup {<<"g">> \o w : w \in WellFormedSlots}

BusIDInit ==
    /\ slot \in WellFormedSlots \cup OtherSlots
    /\ busid = None
    /\ pc = "busid"
    /\ NoTemplater /\ NoParser /\ NoMain

\* doi_table['BusID'] = doi_table['Slot'].map(lambda s: ...), one Slot
MapSlot ==
    /\ pc = "busid"
    /\ busid' = BusIDOf(slot)
    /\ pc' = IF BusIDOf(slot).ok THEN "busid_done" ELSE "failed"
    /\ UNCHANGED <<slot, xvars, pvars, mvars>>

BusIDNext == MapSlot

SpecBusID == BusIDInit /\ [][BusIDNext]_vars

----------------------------------------------------------------------------
(* Properties of the BusID conversion *)

\* The positions of character c in s.
PositionsOf(s, c) == {i \in 1..Len(s) : s[i] = c}

\* s is bus:device.function with three non-empty hexadecimal components.
WellFormedSlot(s) ==
    /\ Cardinality(PositionsOf(s, ":")) = 1
    /\ Cardinality(PositionsOf(s, ".")) = 1
    /\ LET i == Kth(PositionsOf(s, ":"), 1)
           j == Kth(PositionsOf(s, "."), 1)
       IN /\ 1 < i /\ i + 1 < j /\ j < Len(s)
          /\ \A p \in (1..Len(s)) \ {i, j} : IsHexDigit(s[p])

\* The value of the digit string s in the given base, by place value.
RECURSIVE PlaceValue(_, _, _)
PlaceValue(s, base, p) ==
    IF p > Len(s) THEN 0
    ELSE HexDigitValue(s[p]) * base ^ (Len(s) - p)
         + PlaceValue(s, base, p + 1)

\* s is a decimal numeral without leading zeros.
CanonicalDecimal(s) ==
    /\ s # <<>>
    /\ \A p \in 1..Len(s) : IsHexDigit(s[p]) /\ HexDigitValue(s[p]) < 10
    /\ Len(s) > 1 => s[1] # "0"

\* C7: a well-formed slot bus:device.function becomes
\* PCI:<bus>:<device>:<function>, each component the decimal numeral,
\* without leading zeros, of the hex component in the same place.
C7_WellFormedSlotConverted ==
    (pc # "busid" /\ WellFormedSlot(slot))
      => /\ pc = "busid_done"
         /\ busid.ok
         /\ SubSeq(busid.value, 1, 4) = <<"P", "C", "I", ":">>
         /\ LET rest == SubSeq(busid.value, 5, Len(busid.value))
                out == PiecesAround(rest, PositionsOf(rest, ":"), 1)
                inp == PiecesAround(slot,
                           PositionsOf(slot, ":") \cup PositionsOf(slot, "."),
                           1)
            IN /\ Len(out) = 3
               /\ PositionsOf(rest, ".") = {}
               /\ \A k \in 1..3 :
                     /\ CanonicalDecimal(out[k])
                     /\ PlaceValue(out[k], 10, 1) = PlaceValue(inp[k], 16, 1)

C7_Witness ==
    /\ pc = "busid_done"
    /\ slot = <<"0", "a", ":", "1", "f", ".", "7">>
    /\ busid.value = <<"P", "C", "I", ":", "1", "0", ":", "3", "1", ":", "7">>

----------------------------------------------------------------------------
(* The __main__ pipeline *)

\* generate_xorg_conf run to its return, for the pipeline.
RECURSIVE ScreenLoop(_, _, _, _)
ScreenLoop(st, bid, sid, n) ==
    IF sid >= n THEN st
    ELSE ScreenLoop(LoopBody(st, bid, sid), bid, sid + 1, n)

RECURSIVE DeviceLoop(_, _, _, _)
DeviceLoop(st, table, idx, n) ==
    IF idx >= Len(table) THEN st
    ELSE DeviceLoop(ScreenLoop(st, table[idx + 1].BusID, 0, n),
                    table, idx + 1, n)

generate_xorg_conf(table, n) ==
    LET st == DeviceLoop([xorg_conf |-> <<>>, screen_records |-> <<>>,
                          device_id |-> 0], table, 0, n)
    IN Append(st.xorg_conf, ServerLayoutSection(st.screen_records))

\* def generate_xorg_conf(devices, n_screens=3)
DefaultScreens == 3

RECURSIVE ConcatAll(_)
ConcatAll(ss) == IF ss = <<>> THEN <<>> ELSE Head(ss) \o ConcatAll(Tail(ss))

\* Field names and values of lspci -mm -v. A name or a value that holds
\* none of the parser's separators stands as one character of the text.
Vendor == <<"Vendor">>
Class == <<"Class">>
Slot == <<"Slot">>
TargetVendor == <<"NVIDIA Corporation">>
TargetClass == <<"3D controller">>

\* pd.DataFrame(dcts).columns
Columns(table) == UNION {DOMAIN table[i] : i \in 1..Len(table)}

\* raw_table.groupby(['Vendor', 'Class']): KeyError when a key column is
\* missing; otherwise the groups, which leave out the rows with a missing
\* (NaN) key.
GroupBy(table) ==
    IF Vendor \notin Columns(table) THEN Raised("KeyError")
    ELSE IF Class \notin Columns(table) THEN Raised("KeyError")
    ELSE Returned({<<table[i][Vendor], table[i][Class]>> :
                     i \in {j \in 1..Len(table) :
                              {Vendor, Class} \subseteq DOMAIN table[j]}})

\* A selection by filtering, which gives an empty table for a missing group.
GetGroupOrEmpty(table, key) ==
    Returned(SelectSeq(table,
                LAMBDA row : /\ {Vendor, Class} \subseteq DOMAIN row
                             /\ <<row[Vendor], row[Class]>> = key))

\* group.get_group(key).copy(): KeyError when there is no such group.
GetGroup(table, key) ==
    IF key \notin GroupBy(table).value THEN Raised("KeyError")
    ELSE Returned(SelectSeq(table,
                     LAMBDA row : /\ {Vendor, Class} \subseteq DOMAIN row
                                  /\ <<row[Vendor], row[Class]>> = key))

\* doi_table['BusID'] = doi_table['Slot'].map(lambda ...): KeyError without
\* a Slot column, TypeError for a row without Slot (NaN), ValueError from
\* int(); otherwise the table with its BusID column.
AppendBusIDColumn(raw, doi) ==
    IF Slot \notin Columns(raw) THEN Raised("KeyError")
    ELSE IF \E i \in 1..Len(doi) : Slot \notin DOMAIN doi[i]
    THEN Raised("TypeError")
    ELSE IF \E i \in 1..Len(doi) : ~BusIDOf(doi[i][Slot]).ok
    THEN Raised("ValueError")
    ELSE Returned([i \in 1..Len(doi) |->
                     [Slot |-> doi[i][Slot],
                      BusID |-> BusIDOf(doi[i][Slot]).value]])

(* Bounds of the pipeline model *)
MaxRecords == 2

Systems == {"Linux", "Windows"}

Row(name, value) == name \o name_divider \o value

VendorRows == {Row(Vendor, TargetVendor),
               Row(Vendor, <<"Intel Corporation">>),
               Vendor \o TargetVendor}
ClassRows == {Row(Class, TargetClass),
              Row(Class, <<"VGA compatible controller">>)}
SlotRows == {Row(Slot, <<"0", "1", ":", "0", "0", ".", "0">>),
             Row(Slot, <<"0", "1", ":", "0", "0">>),
             Row(Slot, <<"0", "g", ":", "0", "0", ".", "0">>)}

\* One record of lspci -mm -v, followed by its blank line.
LspciRecords ==
    {sl \o row_divider \o cl \o row_divider \o vn \o block_divider :
        sl \in SlotRows, cl \in ClassRows, vn \in VendorRows}

LspciOutputs ==
    {ConcatAll(rs) :
        rs \in UNION {[1..n -> LspciRecords] : n \in 0..MaxRecords}}

MainInit ==
    /\ pc = "platform"
    /\ content = None /\ blocks = None /\ dcts = None /\ warnings = <<>>
    /\ doi_table = None /\ devices = None /\ output = None
    /\ failed_at = None
    /\ dir_created = FALSE
    /\ file_written = FALSE
    /\ n_screens = None /\ idx_device = None /\ scr = None /\ bus_id = None
    /\ device_id = None /\ xorg_conf = None /\ screen_records = None
    /\ NoBusID

Fail(step) ==
    /\ pc' = "failed"
    /\ failed_at' = step

\* assert platform.system() == 'Linux'
PlatformCheck ==
    /\ pc = "platform"
    /\ \E system \in Systems :
          IF system = "Linux"
          THEN pc' = "lspci" /\ UNCHANGED failed_at
          ELSE Fail("platform")
    /\ UNCHANGED <<xvars, pvars, bvars, doi_table, dir_created, file_written>>

\* output = subprocess.check_output(command).decode()
RunLspci ==
    /\ pc = "lspci"
    /\ \/ \E out \in LspciOutputs :
             /\ content' = out
             /\ pc' = "parse"
             /\ UNCHANGED failed_at
       \/ Fail("lspci") /\ UNCHANGED content
    /\ UNCHANGED <<xvars, blocks, dcts, warnings, bvars, doi_table,
                   dir_created, file_written>>

\* blocks = content2blocks(output); dcts = [block2dict(e) for e in blocks]
\* raw_table = pd.DataFrame(dcts)
ParseOutput ==
    /\ pc = "parse"
    /\ LET bs == content2blocks(content)
       IN /\ blocks' = bs
          /\ dcts' = [j \in 1..Len(bs) |-> block2dict(bs[j]).output]
          /\ warnings' = warnings
               \o ConcatAll([j \in 1..Len(bs) |-> block2dict(bs[j]).warned])
    /\ pc' = "group"
    /\ UNCHANGED <<content, xvars, bvars, mvars>>

\* group = raw_table.groupby(['Vendor', 'Class'])
GroupByVendorClass ==
    /\ pc = "group"
    /\ IF GroupBy(dcts).ok
       THEN pc' = "select" /\ UNCHANGED failed_at
       ELSE Fail("group")
    /\ UNCHANGED <<xvars, pvars, bvars, doi_table, dir_created, file_written>>

\* doi_table = group.get_group(('NVIDIA Corporation', '3D controller')).copy()
SelectDevices ==
    /\ pc = "select"
    /\ LET got == GetGroup(dcts, <<TargetVendor, TargetClass>>)
       IN IF got.ok
          THEN /\ doi_table' = got.value
               /\ pc' = "busid"
               /\ UNCHANGED failed_at
          ELSE Fail("select") /\ UNCHANGED doi_table
    /\ UNCHANGED <<xvars, pvars, bvars, dir_created, file_written>>

\* doi_table['BusID'] = doi_table['Slot'].map(...)
AppendBusID ==
    /\ pc = "busid"
    /\ LET got == AppendBusIDColumn(dcts, doi_table)
       IN IF got.ok
          THEN /\ devices' = got.value
               /\ pc' = "template"
               /\ UNCHANGED failed_at
          ELSE Fail("busid") /\ UNCHANGED devices
    /\ UNCHANGED <<n_screens, idx_device, scr, bus_id, device_id, xorg_conf,
                   screen_records, output, pvars, bvars, doi_table,
                   dir_created, file_written>>

\* command = generate_xorg_conf(doi_table)
GenerateConf ==
    /\ pc = "template"
    /\ output' = generate_xorg_conf(devices, DefaultScreens)
    /\ pc' = "mkdir"
    /\ UNCHANGED <<devices, n_screens, idx_device, scr, bus_id, device_id,
                   xorg_conf, screen_records, pvars, bvars, mvars>>

\* path.parent.mkdir(parents=True, exist_ok=True), or its OSError
MakeDirectory ==
    /\ pc = "mkdir"
    /\ \/ /\ dir_created' = TRUE
          /\ pc' = "write"
          /\ UNCHANGED failed_at
       \/ Fail("mkdir") /\ UNCHANGED dir_created
    /\ UNCHANGED <<xvars, pvars, bvars, doi_table, file_written>>

\* with open(path, 'w') as f: f.write(command), or the OSError of open
\* (nothing written) or of write (the file is already truncated)
WriteFile ==
    /\ pc = "write"
    /\ \/ /\ file_written' = TRUE
          /\ pc' = "input"
          /\ UNCHANGED failed_at
       \/ Fail("write") /\ file_written' \in {FALSE, TRUE}
    /\ UNCHANGED <<xvars, pvars, bvars, doi_table, dir_created>>

\* input('Press enter to escape.'), or its EOFError / KeyboardInterrupt
WaitForEnter ==
    /\ pc = "input"
    /\ \/ pc' = "done" /\ UNCHANGED failed_at
       \/ Fail("input")
    /\ UNCHANGED <<xvars, pvars, bvars, doi_table, dir_created, file_written>>

MainNext ==
    \/ PlatformCheck
    \/ RunLspci
    \/ ParseOutput
    \/ GroupByVendorClass
    \/ SelectDevices
    \/ AppendBusID
    \/ GenerateConf
    \/ MakeDirectory
    \/ WriteFile
    \/ WaitForEnter

SpecMain == MainInit /\ [][MainNext]_vars

----------------------------------------------------------------------------
(* Properties of the pipeline *)

\* The step the run is at, or the step that failed.
At == IF pc = "failed" THEN failed_at ELSE pc

\* The steps that follow the parse step (dcts is bound) and the selection
\* step (doi_table is bound).
AfterParse == {"group", "select", "busid", "template", "mkdir", "write",
               "input", "done"}
AfterSelection == {"busid", "template", "mkdir", "write", "input", "done"}

\* No parsed record is of the target group.
NoTargetGroup ==
    ~\E i \in 1..Len(dcts) :
        /\ Vendor \in DOMAIN dcts[i] /\ dcts[i][Vendor] = TargetVendor
        /\ Class \in DOMAIN dcts[i] /\ dcts[i][Class] = TargetClass

\* C8: a slot that is not bus:device.function with hex components is
\* rejected: the run stops at the BusID step with an error, no BusID is
\* produced for it and no file is written.
C8_MalformedSlotRejected ==
    (At \in AfterSelection
       /\ \E i \in 1..Len(doi_table) : ~WellFormedSlot(doi_table[i][Slot]))
      => /\ At = "busid"
         /\ ~dir_created
         /\ ~file_written

\* C9 as stated: without a target group the run fails at the selection step.
C9_FailsAtSelection ==
    (At \in AfterParse /\ NoTargetGroup)
      => /\ At \notin AfterSelection
         /\ ~dir_created
         /\ ~file_written
         /\ pc = "failed" => failed_at = "select"

\* C9 amended: without a target group the run fails at the selection step,
\* or already at the grouping step when no record has a Vendor field or
\* none has a Class field; the templater is not reached, nothing is created
\* or written, and the run does not end in success.
C9_FailsAtGroupingOrSelection ==
    (At \in AfterParse /\ NoTargetGroup)
      => /\ At \in {"group", "select"}
         /\ ~dir_created
         /\ ~file_written
         /\ pc = "select" => {Vendor, Class} \subseteq Columns(dcts)
         /\ pc = "failed"
              => \/ /\ failed_at = "group"
                    /\ \/ Vendor \notin Columns(dcts)
                       \/ Class \notin Columns(dcts)
                 \/ /\ failed_at = "select"
                    /\ {Vendor, Class} \subseteq Columns(dcts)

C9_Witness ==
    /\ pc = "failed"
    /\ failed_at = "select"
    /\ NoTargetGroup
    /\ Len(dcts) = 2

====
